---- MODULE Spec2Model ----
(***************************************************************************)
(* Model of the newline-after-block analyzer (newline-after-block.go).     *)
(*                                                                         *)
(* A source file is a text of one-character tokens separated by spaces and *)
(* line breaks.  Its layout (which statement follows which, how many line  *)
(* breaks and which comments sit between two tokens) is drawn in Init; the *)
(* operators File/LayoutStmt compute from it what the Go parser hands to   *)
(* the analyzer: the statement tree with Pos/End offsets, the table of     *)
(* line starts (token.File) and the comment groups (ast.File.Comments).    *)
(* The actions are the calls of inspectNode that ast.Inspect makes, one    *)
(* per node, and the application of the suggested fixes.                   *)
(***************************************************************************)
EXTENDS Integers, Sequences, FiniteSets, TLC

\* ---------------------------------------------------------------- bounds
\* Line breaks between two tokens: 0 (same line) .. MaxGap.
MaxGap == 2
\* Comment groups on lines of their own between two tokens.
MaxCmts == 1
\* Statements of a body in which guards, defers and plain statements mix.
MaxRun == 3
\* Arms of a switch or select.
MaxArms == 2
\* Calls of Set made through the flags of one analyzer.
MaxSets == 3

\* ------------------------------------------------------- source positions
NoPos == 0 - 1

NoSep == [inl |-> FALSE, cg |-> <<>>, gap |-> 0]

Gap(g) == [inl |-> FALSE, cg |-> <<>>, gap |-> g]

\* The text written so far: off is the offset after the last token, lines
\* the offsets at which the lines start, cmts the start offsets of the
\* comment groups in source order.
StartCur == [off |-> 1, lines |-> <<0>>, cmts |-> <<>>]

\* The next token, gap line breaks after the last one (0: on the same line,
\* after one space).
PlaceTok(cur, gap) ==
    LET pos == IF gap = 0 THEN cur.off + 1 ELSE cur.off + gap
    IN  [pos |-> pos,
         cur |-> [off   |-> pos + 1,
                  lines |-> cur.lines \o [i \in 1..gap |-> cur.off + i],
                  cmts  |-> cur.cmts]]

PlaceCmt(cur, gap) ==
    LET t == PlaceTok(cur, gap)
    IN  [t.cur EXCEPT !.cmts = Append(@, t.pos)]

RECURSIVE PlaceCmts(_, _)
PlaceCmts(cur, cg) ==
    IF cg = <<>> THEN cur ELSE PlaceCmts(PlaceCmt(cur, Head(cg)), Tail(cg))

\* What stands between two tokens: an optional comment on the line of the
\* first token, then comment groups on lines of their own.
PlaceSep(cur, sep) ==
    PlaceCmts(IF sep.inl THEN PlaceCmt(cur, 0) ELSE cur, sep.cg)

\* --------------------------------------------------------- statement tree
Node(kind, pos, end) ==
    [kind |-> kind, pos |-> pos, end |-> end, cond |-> "", rhs |-> "",
     hasBody |-> FALSE, bodyEnd |-> NoPos, body |-> <<>>, els |-> <<>>]

LeafKind(form) ==
    CASE form = "expr"      -> "ExprStmt"
      [] form = "return"    -> "ReturnStmt"
      [] form = "defer"     -> "DeferStmt"
      [] form = "assign"    -> "AssignStmt"
      [] form = "assignlit" -> "AssignStmt"
      [] form = "varlit"    -> "DeclStmt"
      [] form = "vartype"   -> "DeclStmt"

BlockKind(form) ==
    CASE form = "if"         -> "IfStmt"
      [] form = "for"        -> "ForStmt"
      [] form = "range"      -> "RangeStmt"
      [] form = "switch"     -> "SwitchStmt"
      [] form = "typeswitch" -> "TypeSwitchStmt"
      [] form = "select"     -> "SelectStmt"
      [] form = "block"      -> "BlockStmt"
      [] form = "labeled"    -> "LabeledStmt"
      [] form = "go"         -> "GoStmt"
      [] form = "exprfn"     -> "ExprStmt"
      [] form = "deferfn"    -> "DeferStmt"
      [] form = "assignfn"   -> "AssignStmt"
      [] form = "assigncall" -> "AssignStmt"
      [] form = "varfn"      -> "DeclStmt"
      [] form = "varcall"    -> "DeclStmt"

LeafForms == {"expr", "return", "defer", "assign", "assignlit", "varlit", "vartype"}

\* Forms whose closing brace is followed by "()" on the same line.
CallForms == {"go", "exprfn", "deferfn", "assigncall", "varcall"}

Rhs(form) ==
    CASE form \in {"assignfn", "varfn"}      -> "FuncLit"
      [] form \in {"assigncall", "varcall"}  -> "CallExpr"
      [] form \in {"assignlit", "varlit"}    -> "CompositeLit"
      [] form = "vartype"                    -> "TypeSpec"
      [] OTHER                               -> ""

RECURSIVE LayoutStmt(_, _)
RECURSIVE LayoutBody(_, _, _)

\* The statements shapes[1..] laid out one after the other.
LayoutBody(cur, shapes, acc) ==
    IF shapes = <<>> THEN [list |-> acc, cur |-> cur]
    ELSE LET r == LayoutStmt(cur, Head(shapes))
         IN  LayoutBody(r.cur, Tail(shapes), Append(acc, r.node))

LayoutStmt(cur, sh) ==
    LET t  == PlaceTok(PlaceSep(cur, sh.sep), sh.sep.gap)
        \* A literal or type declaration spans three lines: T{ / field / }.
        lt == PlaceTok(PlaceTok(t.cur, 1).cur, 1)
        b  == LayoutBody(t.cur, sh.body, <<>>)
        cl == PlaceTok(PlaceSep(b.cur, sh.close), sh.close.gap)
        \* "()" after the closing brace of an invoked function literal.
        ce == IF sh.form \in CallForms THEN cl.pos + 3 ELSE cl.pos + 1
        e  == LayoutStmt(PlaceTok(cl.cur, 0).cur, sh.els[1])
    IN  CASE sh.form \in {"assignlit", "varlit", "vartype"} ->
               [node |-> [Node(LeafKind(sh.form), t.pos, lt.pos + 1)
                            EXCEPT !.rhs = Rhs(sh.form)],
                cur  |-> lt.cur]
          [] sh.form \in LeafForms \ {"assignlit", "varlit", "vartype"} ->
               [node |-> Node(LeafKind(sh.form), t.pos, t.pos + 1),
                cur  |-> t.cur]
          [] sh.form \in {"case", "comm"} ->
               [node |-> [Node(IF sh.form = "case" THEN "CaseClause" ELSE "CommClause",
                               t.pos,
                               IF b.list = <<>> THEN t.pos + 1
                               ELSE b.list[Len(b.list)].end)
                            EXCEPT !.body = b.list],
                cur  |-> b.cur]
          [] sh.form = "if" /\ sh.els # <<>> ->
               [node |-> [Node("IfStmt", t.pos, e.node.end)
                            EXCEPT !.cond = sh.cond, !.hasBody = TRUE,
                                   !.bodyEnd = cl.pos + 1, !.body = b.list,
                                   !.els = <<e.node>>],
                cur  |-> e.cur]
          [] OTHER ->
               [node |-> [Node(BlockKind(sh.form), t.pos, ce)
                            EXCEPT !.cond = sh.cond, !.rhs = Rhs(sh.form),
                                   !.hasBody = TRUE, !.bodyEnd = cl.pos + 1,
                                   !.body = b.list],
                cur  |-> [cl.cur EXCEPT !.off = ce]]

\* A file: "func f() {" body "}" [" // comment"] and a final line break.
\* typesInfo tells whether the pass carries type information.
File(fs) ==
    LET b  == LayoutBody(StartCur, fs.body, <<>>)
        cl == PlaceTok(PlaceSep(b.cur, fs.close), fs.close.gap)
        c  == IF fs.endInl THEN PlaceCmt(cl.cur, 0) ELSE cl.cur
    IN  [list      |-> b.list,
         bodyEnd   |-> cl.pos + 1,
         lines     |-> c.lines,
         size      |-> c.off + 1,
         comments  |-> c.cmts,
         typesInfo |-> fs.typesInfo,
         name      |-> fs.name]

\* ------------------------------------------------------- token.File
Line(file, pos) == Cardinality({i \in 1..Len(file.lines) : file.lines[i] <= pos})

LineStart(file, line) == file.lines[line]

LineCount(file) == Len(file.lines)

\* pass.Fset.File(pos): the file holding pos, nil for a position in no file.
FsetFile(file, pos) == pos >= 0 /\ pos <= file.size

\* ------------------------------------------------------- the classifier
extractFuncLit(rhs) ==
    CASE rhs = "FuncLit"  -> TRUE
      [] rhs = "CallExpr" -> FALSE
      [] OTHER            -> FALSE

checkAssignStmt(s) == extractFuncLit(s.rhs)

checkValueSpec(s) == s.rhs # "TypeSpec" /\ extractFuncLit(s.rhs)

checkDeclStmt(s) == checkValueSpec(s)

\* needsNewlineAfter that asks for a blank line after every statement.
needsNewlineAfter_All(stmt) == TRUE

\* needsNewlineAfter without the case for defer statements.
needsNewlineAfter_NoDefer(stmt) ==
    CASE stmt.kind = "IfStmt" -> TRUE
      [] stmt.kind \in {"ForStmt", "RangeStmt"} -> TRUE
      [] stmt.kind \in {"SwitchStmt", "TypeSwitchStmt", "SelectStmt"} -> TRUE
      [] stmt.kind = "AssignStmt" -> checkAssignStmt(stmt)
      [] stmt.kind = "DeclStmt" -> checkDeclStmt(stmt)
      [] OTHER -> FALSE

needsNewlineAfter(stmt) ==
    CASE stmt.kind = "IfStmt" -> TRUE
      [] stmt.kind \in {"ForStmt", "RangeStmt"} -> TRUE
      [] stmt.kind \in {"SwitchStmt", "TypeSwitchStmt", "SelectStmt"} -> TRUE
      [] stmt.kind = "AssignStmt" -> checkAssignStmt(stmt)
      [] stmt.kind = "DeclStmt" -> checkDeclStmt(stmt)
      [] stmt.kind = "DeferStmt" -> TRUE
      [] OTHER -> FALSE

\* ------------------------------------------------ the error-check matcher
\* The conditions of the if statements of the model: x op y, with the static
\* type recorded for each identifier ("" when none is recorded).
Ident(name, typ) == [isIdent |-> TRUE, name |-> name, typ |-> typ]

NotIdent == [isIdent |-> FALSE, name |-> "", typ |-> ""]

Cond(c) ==
    CASE c = "err != nil"   -> [isBinary |-> TRUE, op |-> "!=", x |-> Ident("err", "error"), y |-> Ident("nil", "untyped nil")]
      [] c = "nil != err"   -> [isBinary |-> TRUE, op |-> "!=", x |-> Ident("nil", "untyped nil"), y |-> Ident("err", "error")]
      [] c = "err := g(); err != nil" ->
            \* ifStmt.Init is no part of ifStmt.Cond.
            [isBinary |-> TRUE, op |-> "!=", x |-> Ident("err", "error"), y |-> Ident("nil", "untyped nil")]
      [] c = "e != nil"     -> [isBinary |-> TRUE, op |-> "!=", x |-> Ident("e", "*MyErr"), y |-> Ident("nil", "untyped nil")]
      [] c = "err == nil"   -> [isBinary |-> TRUE, op |-> "==", x |-> Ident("err", "error"), y |-> Ident("nil", "untyped nil")]
      [] c = "p != nil"     -> [isBinary |-> TRUE, op |-> "!=", x |-> Ident("p", "*int"), y |-> Ident("nil", "untyped nil")]
      [] c = "u != nil"     -> [isBinary |-> TRUE, op |-> "!=", x |-> Ident("u", ""), y |-> Ident("nil", "untyped nil")]
      [] c = "s.err != nil" -> [isBinary |-> TRUE, op |-> "!=", x |-> NotIdent, y |-> Ident("nil", "untyped nil")]
      [] c = "x > 0"        -> [isBinary |-> TRUE, op |-> ">", x |-> Ident("x", "int"), y |-> NotIdent]
      [] OTHER              -> [isBinary |-> FALSE, op |-> "", x |-> NotIdent, y |-> NotIdent]

\* types.Implements(typ, error) for the types of the model; "MyErr" has its
\* Error method on the pointer receiver.
Implements(typ) == typ \in {"error", "*MyErr"}

NewPointer(typ) == IF typ = "MyErr" THEN "*MyErr" ELSE "*" \o typ

implementsError(typ) == Implements(typ) \/ Implements(NewPointer(typ))

\* isErrNotNilPattern that takes the comparison for an error check when it
\* cannot look up the type.
isErrNotNilPattern_Guess(file, x, y) ==
    /\ x.isIdent
    /\ y.isIdent /\ y.name = "nil"
    /\ (~file.typesInfo \/ x.typ = "" \/ implementsError(x.typ))

isErrNotNilPattern(file, x, y) ==
    /\ x.isIdent
    /\ y.isIdent /\ y.name = "nil"
    /\ file.typesInfo
    /\ x.typ # ""
    /\ implementsError(x.typ)

isErrorCheckIfStmt(file, stmt) ==
    /\ stmt.kind = "IfStmt"
    /\ Cond(stmt.cond).isBinary
    /\ Cond(stmt.cond).op = "!="
    /\ \/ isErrNotNilPattern(file, Cond(stmt.cond).x, Cond(stmt.cond).y)
       \/ isErrNotNilPattern(file, Cond(stmt.cond).y, Cond(stmt.cond).x)

isDeferStmt(stmt) == stmt.kind = "DeferStmt"

\* ------------------------------------------------- the boundary resolver
\* getBlockEnd that stops at the first branch of a chain.
getBlockEnd_FirstBranch(stmt) ==
    CASE stmt.kind \in {"IfStmt", "ForStmt", "RangeStmt", "SwitchStmt", "TypeSwitchStmt",
                        "SelectStmt"} ->
            IF stmt.hasBody THEN stmt.bodyEnd ELSE NoPos
      [] stmt.kind = "BlockStmt" -> stmt.end
      [] stmt.kind = "AssignStmt" ->
            IF checkAssignStmt(stmt) /\ stmt.hasBody THEN stmt.bodyEnd ELSE NoPos
      [] stmt.kind = "DeclStmt" ->
            IF checkDeclStmt(stmt) /\ stmt.hasBody THEN stmt.bodyEnd ELSE NoPos
      [] stmt.kind = "DeferStmt" -> stmt.end
      [] OTHER -> NoPos

\* getBlockEnd that returns where the statement starts.
getBlockEnd_Start(stmt) ==
    IF getBlockEnd_FirstBranch(stmt) = NoPos THEN NoPos ELSE stmt.pos

RECURSIVE getBlockEnd(_)
getBlockEnd(stmt) ==
    CASE stmt.kind = "IfStmt" ->
            IF stmt.els # <<>> THEN getBlockEnd(stmt.els[1])
            ELSE IF stmt.hasBody THEN stmt.bodyEnd ELSE NoPos
      [] stmt.kind = "BlockStmt" -> stmt.end
      [] stmt.kind \in {"ForStmt", "RangeStmt", "SwitchStmt", "TypeSwitchStmt", "SelectStmt"} ->
            IF stmt.hasBody THEN stmt.bodyEnd ELSE NoPos
      [] stmt.kind = "AssignStmt" ->
            IF checkAssignStmt(stmt) /\ stmt.hasBody THEN stmt.bodyEnd ELSE NoPos
      [] stmt.kind = "DeclStmt" ->
            IF checkDeclStmt(stmt) /\ stmt.hasBody THEN stmt.bodyEnd ELSE NoPos
      [] stmt.kind = "DeferStmt" -> stmt.end
      [] OTHER -> NoPos

\* ---------------------------------------------------- the fix position
\* findEndOfLine that returns the start of the line pos is on.
findEndOfLine_ThisLine(file, pos) == LineStart(file, Line(file, pos))

findEndOfLine(file, pos) ==
    IF Line(file, pos) < LineCount(file)
    THEN LineStart(file, Line(file, pos) + 1)
    ELSE file.size

MsgBlock == "missing newline after block statement"

MsgCase == "missing newline after case block"

\* createDiagnosticWithFix that inserts the line break at the boundary.
createDiagnosticWithFix_AtBoundary(file, blockEnd, message) ==
    [pos |-> blockEnd, message |-> message,
     edits |-> <<[pos |-> blockEnd, end |-> blockEnd, newText |-> "\n"]>>]

createDiagnosticWithFix(file, blockEnd, message) ==
    IF ~FsetFile(file, blockEnd)
    THEN [pos |-> blockEnd, message |-> message, edits |-> <<>>]
    ELSE [pos |-> blockEnd, message |-> message,
          edits |-> <<[pos     |-> findEndOfLine(file, blockEnd),
                       end     |-> findEndOfLine(file, blockEnd),
                       newText |-> "\n"]>>]

\* -------------------------------------------------- the adjacency scanner
\* The scanners return the diagnostics they pass to pass.Report, in order.

\* The first comment group of comments[i..] that lies after blockEnd, before
\* nextPos (NoPos: no upper limit) and not on blockEndLine; 0 if none.
RECURSIVE firstComment(_, _, _, _, _)
firstComment(file, i, blockEnd, blockEndLine, nextPos) ==
    IF i > Len(file.comments) THEN 0
    ELSE IF \/ file.comments[i] <= blockEnd
            \/ (nextPos # NoPos /\ file.comments[i] >= nextPos)
         THEN firstComment(file, i + 1, blockEnd, blockEndLine, nextPos)
    ELSE IF Line(file, file.comments[i]) = blockEndLine
         THEN firstComment(file, i + 1, blockEnd, blockEndLine, nextPos)
    ELSE i

checkCommentBetween(file, blockEnd, blockEndLine, nextPos) ==
    LET i == firstComment(file, 1, blockEnd, blockEndLine, nextPos)
    IN  [found |-> i # 0,
         diags |-> IF i # 0 /\ Line(file, file.comments[i]) = blockEndLine + 1
                   THEN <<createDiagnosticWithFix(file, blockEnd, MsgBlock)>>
                   ELSE <<>>]

\* checkStatementPair without the two exceptions for a following defer.
checkStatementPair_NoException(file, current, next) ==
    IF ~needsNewlineAfter(current) THEN <<>>
    ELSE IF getBlockEnd(current) = NoPos THEN <<>>
    ELSE IF ~FsetFile(file, getBlockEnd(current)) THEN <<>>
    ELSE LET blockEnd     == getBlockEnd(current)
             blockEndLine == Line(file, blockEnd)
             nextLine     == Line(file, next.pos)
             c == checkCommentBetween(file, blockEnd, blockEndLine, next.pos)
         IN  c.diags \o
             IF ~c.found /\ nextLine = blockEndLine + 1
             THEN <<createDiagnosticWithFix(file, blockEnd, MsgBlock)>>
             ELSE <<>>

\* checkStatementPair that applies the two exceptions only when no comment
\* stands between the two statements.
checkStatementPair_CommentFirst(file, current, next) ==
    IF /\ isDeferStmt(next)
       /\ isErrorCheckIfStmt(file, current) \/ isDeferStmt(current)
       /\ ~checkCommentBetween(file, getBlockEnd(current),
                               Line(file, getBlockEnd(current)), next.pos).found
    THEN <<>>
    ELSE checkStatementPair_NoException(file, current, next)

checkStatementPair(file, current, next) ==
    IF isErrorCheckIfStmt(file, current) /\ isDeferStmt(next) THEN <<>>
    ELSE IF isDeferStmt(current) /\ isDeferStmt(next) THEN <<>>
    ELSE IF ~needsNewlineAfter(current) THEN <<>>
    ELSE IF getBlockEnd(current) = NoPos THEN <<>>
    ELSE IF ~FsetFile(file, getBlockEnd(current)) THEN <<>>
    ELSE LET blockEnd     == getBlockEnd(current)
             blockEndLine == Line(file, blockEnd)
             nextLine     == Line(file, next.pos)
             c == checkCommentBetween(file, blockEnd, blockEndLine, next.pos)
         IN  c.diags \o
             IF ~c.found /\ nextLine = blockEndLine + 1
             THEN <<createDiagnosticWithFix(file, blockEnd, MsgBlock)>>
             ELSE <<>>

\* checkTrailingComment that lets every comment after the last statement pass.
checkTrailingComment_Never(file, blockEnd, blockEndLine) == <<>>

\* checkTrailingComment that reports whether or not a comment follows.
checkTrailingComment_Always(file, blockEnd, blockEndLine) ==
    <<createDiagnosticWithFix(file, blockEnd, MsgBlock)>>

checkTrailingComment(file, blockEnd, blockEndLine) ==
    LET i == firstComment(file, 1, blockEnd, blockEndLine, NoPos)
    IN  IF i # 0 /\ Line(file, file.comments[i]) = blockEndLine + 1
        THEN <<createDiagnosticWithFix(file, blockEnd, MsgBlock)>>
        ELSE <<>>

checkLastStatement(file, lastStmt) ==
    IF ~needsNewlineAfter(lastStmt) THEN <<>>
    ELSE IF getBlockEnd(lastStmt) = NoPos THEN <<>>
    ELSE IF ~FsetFile(file, getBlockEnd(lastStmt)) THEN <<>>
    ELSE checkTrailingComment(file, getBlockEnd(lastStmt),
                              Line(file, getBlockEnd(lastStmt)))

RECURSIVE checkPairsFrom(_, _, _)
checkPairsFrom(file, stmts, i) ==
    IF i > Len(stmts) - 1 THEN <<>>
    ELSE checkStatementPair(file, stmts[i], stmts[i + 1])
         \o checkPairsFrom(file, stmts, i + 1)

\* checkStatements that looks at the last statement before the pairs.
checkStatements_LastFirst(file, stmts) ==
    (IF Len(stmts) > 0 THEN checkLastStatement(file, stmts[Len(stmts)]) ELSE <<>>)
    \o checkPairsFrom(file, stmts, 1)

checkStatements(file, stmts) ==
    checkPairsFrom(file, stmts, 1)
    \o IF Len(stmts) > 0 THEN checkLastStatement(file, stmts[Len(stmts)]) ELSE <<>>

\* ------------------------------------------------ the clause spacing scanner
SelectSeq2(s, kind) == SelectSeq(s, LAMBDA n : n.kind = kind)

extractCaseClauses(stmts) == SelectSeq2(stmts, "CaseClause")

extractCommClauses(stmts) == SelectSeq2(stmts, "CommClause")

\* checkClauseComment that sees no comment.
checkClauseComment_None(file, endPos, endLine, nextPos) == [found |-> FALSE, diags |-> <<>>]

checkClauseComment(file, endPos, endLine, nextPos) ==
    LET i == firstComment(file, 1, endPos, endLine, nextPos)
    IN  [found |-> i # 0,
         diags |-> IF i # 0 /\ Line(file, file.comments[i]) = endLine + 1
                   THEN <<createDiagnosticWithFix(file, endPos, MsgCase)>>
                   ELSE <<>>]

\* checkCaseClauseSpacing that takes the end of the clause for the end of the
\* last statement when the clause has no statement.
checkCaseClauseSpacing_Empty(file, current, next) ==
    LET lastStmtEnd  == IF Len(current.body) = 0 THEN current.end
                        ELSE current.body[Len(current.body)].end
        lastStmtLine == Line(file, lastStmtEnd)
        nextCaseLine == Line(file, next.pos)
        c == checkClauseComment(file, lastStmtEnd, lastStmtLine, next.pos)
    IN  IF ~FsetFile(file, lastStmtEnd) THEN <<>>
        ELSE c.diags \o
             IF ~c.found /\ nextCaseLine = lastStmtLine + 1
             THEN <<createDiagnosticWithFix(file, lastStmtEnd, MsgCase)>>
             ELSE <<>>

checkCaseClauseSpacing(file, current, next) ==
    IF Len(current.body) = 0 THEN <<>>
    ELSE LET lastStmtEnd  == current.body[Len(current.body)].end
             lastStmtLine == Line(file, lastStmtEnd)
             nextCaseLine == Line(file, next.pos)
             c == checkClauseComment(file, lastStmtEnd, lastStmtLine, next.pos)
         IN  IF ~FsetFile(file, lastStmtEnd) THEN <<>>
             ELSE c.diags \o
                  IF ~c.found /\ nextCaseLine = lastStmtLine + 1
                  THEN <<createDiagnosticWithFix(file, lastStmtEnd, MsgCase)>>
                  ELSE <<>>

checkCommClauseSpacing(file, current, next) ==
    IF Len(current.body) = 0 THEN <<>>
    ELSE LET lastStmtEnd  == current.body[Len(current.body)].end
             lastStmtLine == Line(file, lastStmtEnd)
             nextCommLine == Line(file, next.pos)
             c == checkClauseComment(file, lastStmtEnd, lastStmtLine, next.pos)
         IN  IF ~FsetFile(file, lastStmtEnd) THEN <<>>
             ELSE c.diags \o
                  IF ~c.found /\ nextCommLine = lastStmtLine + 1
                  THEN <<createDiagnosticWithFix(file, lastStmtEnd, MsgCase)>>
                  ELSE <<>>

RECURSIVE caseSpacingFrom(_, _, _)
caseSpacingFrom(file, cs, i) ==
    IF i > Len(cs) - 1 THEN <<>>
    ELSE checkCaseClauseSpacing(file, cs[i], cs[i + 1]) \o caseSpacingFrom(file, cs, i + 1)

\* checkCaseClauses that wants three clauses.
checkCaseClauses_Three(file, stmts) ==
    IF Len(extractCaseClauses(stmts)) < 3 THEN <<>>
    ELSE caseSpacingFrom(file, extractCaseClauses(stmts), 1)

checkCaseClauses(file, stmts) ==
    IF Len(extractCaseClauses(stmts)) < 2 THEN <<>>
    ELSE caseSpacingFrom(file, extractCaseClauses(stmts), 1)

RECURSIVE commSpacingFrom(_, _, _)
commSpacingFrom(file, cs, i) ==
    IF i > Len(cs) - 1 THEN <<>>
    ELSE checkCommClauseSpacing(file, cs[i], cs[i + 1]) \o commSpacingFrom(file, cs, i + 1)

checkCommClauses(file, stmts) ==
    IF Len(extractCommClauses(stmts)) < 2 THEN <<>>
    ELSE commSpacingFrom(file, extractCommClauses(stmts), 1)

\* ---------------------------------------------------------- the tree walk
\* The nodes ast.Inspect visits, in its depth-first order; of a statement
\* the statement itself, its block and the statements in it (expression
\* nodes, which inspectNode ignores, are left out).
Visit(type, node) == [type |-> type, node |-> node]

RECURSIVE Preorder(_)
RECURSIVE PreorderSeq(_)

PreorderSeq(stmts) ==
    IF stmts = <<>> THEN <<>>
    ELSE Preorder(Head(stmts)) \o PreorderSeq(Tail(stmts))

Preorder(n) ==
    CASE n.kind = "BlockStmt" ->
            <<Visit("BlockStmt", n)>> \o PreorderSeq(n.body)
      [] n.kind \in {"CaseClause", "CommClause"} ->
            <<Visit(n.kind, n)>> \o PreorderSeq(n.body)
      [] n.kind = "LabeledStmt" ->
            <<Visit("LabeledStmt", n), Visit("ForStmt", n), Visit("BlockStmt", n)>>
            \o PreorderSeq(n.body)
      [] n.hasBody ->
            <<Visit(n.kind, n), Visit("BlockStmt", n)>> \o PreorderSeq(n.body)
            \o PreorderSeq(n.els)
      [] OTHER -> <<Visit(n.kind, n)>>

\* The visits of a file: its one function declaration and that one's body.
Visits(file) ==
    <<Visit("FuncDecl", Node("FuncDecl", 0, file.bodyEnd)),
      Visit("BlockStmt", [Node("BlockStmt", 0, file.bodyEnd) EXCEPT !.body = file.list])>>
    \o PreorderSeq(file.list)

\* ------------------------------------------------------ applying the fixes
\* The text after the insertions at the offsets E (one line break each): a
\* character at offset q moves behind every insertion at or before q.
Le(E, q) == Cardinality({i \in DOMAIN E : E[i] <= q})

Lt(E, q) == Cardinality({i \in DOMAIN E : E[i] < q})

ShiftPos(E, q) == IF q = NoPos THEN NoPos ELSE q + Le(E, q)

\* An End offset is one past the construct's last character.
ShiftEnd(E, e) == IF e = NoPos THEN NoPos ELSE e + Lt(E, e)

RECURSIVE ShiftNode(_, _)
ShiftNode(E, n) ==
    [n EXCEPT !.pos = ShiftPos(E, @), !.end = ShiftEnd(E, @),
              !.bodyEnd = ShiftEnd(E, @),
              !.body = [i \in DOMAIN n.body |-> ShiftNode(E, n.body[i])],
              !.els = [i \in DOMAIN n.els |-> ShiftNode(E, n.els[i])]]

RECURSIVE SortedSeq(_)
SortedSeq(S) ==
    IF S = {} THEN <<>>
    ELSE LET m == CHOOSE x \in S : \A y \in S : x <= y
         IN  <<m>> \o SortedSeq(S \ {m})

\* The offsets of the line breaks of the file (it ends with one).
LineBreaks(file) == {file.lines[i] - 1 : i \in 2..Len(file.lines)} \cup {file.size - 1}

ApplyEdits(file, E) ==
    LET brk == {c + Le(E, c) : c \in LineBreaks(file)}
               \cup {E[i] + Lt(E, E[i]) + Cardinality({j \in 1..(i - 1) : E[j] = E[i]})
                       : i \in DOMAIN E}
        size == file.size + Len(E)
    IN  [file EXCEPT
           !.list = [i \in DOMAIN file.list |-> ShiftNode(E, file.list[i])],
           !.bodyEnd = ShiftEnd(E, file.bodyEnd),
           !.lines = SortedSeq({0} \cup {c + 1 : c \in {b \in brk : b + 1 < size}}),
           !.size = size,
           !.comments = [i \in DOMAIN file.comments |-> ShiftPos(E, file.comments[i])]]

\* The insertion offsets of the suggested fixes of diagnostics ds, in order.
RECURSIVE EditsOf(_)
EditsOf(ds) ==
    IF ds = <<>> THEN <<>>
    ELSE [i \in DOMAIN Head(ds).edits |-> Head(ds).edits[i].pos] \o EditsOf(Tail(ds))

\* Identical edits applied once.
RECURSIVE Dedup(_)
Dedup(E) ==
    IF E = <<>> THEN <<>>
    ELSE <<Head(E)>> \o Dedup(SelectSeq(Tail(E), LAMBDA p : p # Head(E)))

\* ------------------------------------------------------ exclude patterns
\* A path is its elements and whether it starts at the root: "/w/gen/a.go"
\* is [abs |-> TRUE, elems |-> <<"w", "gen", "a.go">>].
Path(abs, elems) == [abs |-> abs, elems |-> elems]

\* A value of type error: nil, or the parts of its message.
NoErr == [nil |-> TRUE, msg |-> <<>>]

Errorf(msg) == [nil |-> FALSE, msg |-> msg]

\* regexp.Compile for the flag values of the model.
Compile(value) ==
    CASE value = "["   -> [re |-> "", err |-> Errorf(<<"missing closing ]">>)]
      [] value = "a(b" -> [re |-> "", err |-> Errorf(<<"missing closing )">>)]
      [] OTHER         -> [re |-> [expr |-> value], err |-> NoErr]

\* re.MatchString(path) for the patterns of the model.
MatchString(re, path) ==
    CASE re.expr = ".*_excluded\\.go" ->
            \E i \in DOMAIN path.elems : path.elems[i] \in {"a_excluded.go"}
      [] re.expr = "^gen/" ->
            ~path.abs /\ Len(path.elems) >= 2 /\ path.elems[1] = "gen"
      [] re.expr = "\\.go$" ->
            path.elems # <<>> /\ path.elems[Len(path.elems)] \in {"a.go", "a_excluded.go"}
      [] OTHER -> FALSE

\* The analyzer without exclude patterns (New).
NoPatterns == [patterns |-> <<>>, raw |-> <<>>]

\* Set that keeps the raw value of a pattern it rejects.
Set_KeepRaw(e, value) ==
    IF ~Compile(value).err.nil
    THEN [e   |-> [e EXCEPT !.raw = Append(@, value)],
          err |-> Errorf(<<"invalid regex pattern", value>> \o Compile(value).err.msg)]
    ELSE [e   |-> [patterns |-> Append(e.patterns, Compile(value).re),
                   raw      |-> Append(e.raw, value)],
          err |-> NoErr]

\* Set that puts a new pattern in front of the others.
Set_InFront(e, value) ==
    IF ~Compile(value).err.nil
    THEN [e   |-> e,
          err |-> Errorf(<<"invalid regex pattern", value>> \o Compile(value).err.msg)]
    ELSE [e   |-> [patterns |-> <<Compile(value).re>> \o e.patterns,
                   raw      |-> <<value>> \o e.raw],
          err |-> NoErr]

\* excludePatterns.Set: the patterns after the call and the error returned.
Set(e, value) ==
    IF ~Compile(value).err.nil
    THEN [e   |-> e,
          err |-> Errorf(<<"invalid regex pattern", value>> \o Compile(value).err.msg)]
    ELSE [e   |-> [patterns |-> Append(e.patterns, Compile(value).re),
                   raw      |-> Append(e.raw, value)],
          err |-> NoErr]

\* strings.Join: a string as the sequence of its parts.
RECURSIVE Join(_, _)
Join(elems, sep) ==
    IF Len(elems) <= 1 THEN elems
    ELSE <<Head(elems), sep>> \o Join(Tail(elems), sep)

\* excludePatterns.String
String(e) == Join(e.raw, ",")

matches(e, path) == \E i \in DOMAIN e.patterns : MatchString(e.patterns[i], path)

\* os.Getwd: the working directory, or "" when it returns an error.
Getwd == {Path(TRUE, <<"w">>), Path(FALSE, <<>>)}

\* pass.Fset.Position(file.Package).Filename: the absolute name of the file.
Filename(file) ==
    Path(TRUE, <<"w">> \o (IF file.name = "gen/a.go" THEN <<"gen", "a.go">> ELSE <<file.name>>))

\* The number of leading elements two paths share.
RECURSIVE Common(_, _)
Common(a, b) ==
    IF a = <<>> \/ b = <<>> \/ Head(a) # Head(b) THEN 0
    ELSE 1 + Common(Tail(a), Tail(b))

\* filepath.Rel: an error when only one of the two paths is absolute.
Rel(basepath, targpath) ==
    IF basepath.abs # targpath.abs
    THEN [path |-> Path(FALSE, <<>>), err |-> Errorf(<<"Rel: can't make relative">>)]
    ELSE LET k == Common(basepath.elems, targpath.elems)
         IN  [path |-> Path(FALSE, [i \in 1..(Len(basepath.elems) - k) |-> ".."]
                                   \o SubSeq(targpath.elems, k + 1, Len(targpath.elems))),
              err  |-> NoErr]

\* shouldSkipFile that matches the absolute name of the file.
shouldSkipFile_Absolute(e, file, wd) == matches(e, Filename(file))

shouldSkipFile(e, file, wd) ==
    LET r       == Rel(wd, Filename(file))
        relPath == IF ~r.err.nil THEN Filename(file) ELSE r.path
    IN  matches(e, relPath)

\* ------------------------------------------------------------ the inputs
Leaf(form, sep) ==
    [form |-> form, sep |-> sep, cond |-> "", body |-> <<>>, close |-> NoSep, els |-> <<>>]

Blk(form, sep, cond, body, close, els) ==
    [form |-> form, sep |-> sep, cond |-> cond, body |-> body, close |-> close, els |-> els]

\* Comment groups between two tokens: the first on any following line, a
\* later one after a blank line (the parser joins comments on adjacent lines
\* into one group).
RECURSIVE CgSeqs(_)
CgSeqs(n) ==
    IF n = 0 THEN {<<>>}
    ELSE CgSeqs(n - 1) \cup
         {Append(c, g) : c \in {d \in CgSeqs(n - 1) : Len(d) = n - 1},
                         g \in (IF n = 1 THEN 1 ELSE 2)..MaxGap}

\* A comment ends its line: what follows one starts on a later line.
Seps ==
    {s \in [inl : BOOLEAN, cg : CgSeqs(MaxCmts), gap : 0..MaxGap] :
        (s.inl \/ s.cg # <<>>) => s.gap >= 1}

Cmt1 == [inl |-> FALSE, cg |-> <<1>>, gap |-> 1]

Inl1 == [inl |-> TRUE, cg |-> <<>>, gap |-> 1]

\* The body "f()" on a line of its own.
Inner == <<Leaf("expr", Gap(1))>>

Conds == {"err != nil", "nil != err", "e != nil", "err := g(); err != nil", "err == nil", "p != nil",
          "u != nil", "s.err != nil", "x > 0", "ok"}

If(sep, cond, els) == Blk("if", sep, cond, Inner, Gap(1), els)

Else == <<Blk("block", NoSep, "", Inner, Gap(1), <<>>)>>

Arm(form, sep, body) == Blk(form, sep, "", body, NoSep, <<>>)

ArmForm(form) == IF form = "select" THEN "comm" ELSE "case"

Switch(form, sep) ==
    Blk(form, sep, "", <<Arm(ArmForm(form), Gap(1), Inner), Arm(ArmForm(form), Gap(2), Inner)>>,
        Gap(1), <<>>)

\* Every kind of statement, starting sep after the token before it.
Stmts(sep) ==
    {If(sep, c, <<>>) : c \in Conds}
    \cup {If(sep, c, Else) : c \in {"x > 0", "err != nil"}}
    \cup {If(sep, "x > 0", <<If(NoSep, "ok", <<>>)>>),
          If(sep, "x > 0", <<If(NoSep, "ok", Else)>>)}
    \cup {Blk(f, sep, "", Inner, Gap(1), <<>>) :
            f \in {"for", "range", "block", "labeled", "go", "exprfn", "deferfn",
                   "assignfn", "assigncall", "varfn", "varcall"}}
    \cup {Switch(f, sep) : f \in {"switch", "typeswitch", "select"}}
    \cup {Leaf(f, sep) : f \in LeafForms}

\* The statements put after another one.
NextStmts(sep) == {Leaf("expr", sep), Leaf("defer", sep), If(sep, "x > 0", <<>>)}

FileShape(name, typesInfo, body, close, endInl) ==
    [name |-> name, typesInfo |-> typesInfo, body |-> body, close |-> close, endInl |-> endInl]

\* Two statements of a function body and what stands between them.
PairFiles ==
    {FileShape("a.go", TRUE, <<cur, nxt>>, Gap(1), FALSE) :
        cur \in Stmts(Gap(1)),
        nxt \in UNION {NextStmts(sep) : sep \in Seps}}

\* One statement and what stands between it and the end of the function.
LastFiles ==
    {FileShape("a.go", TRUE, <<cur>>, close, endInl) :
        cur \in Stmts(Gap(1)), close \in Seps, endInl \in BOOLEAN}

\* A statement at the end of the body of another statement.
Wrap(form, body, close) ==
    CASE form = "else"   -> If(Gap(1), "x > 0", <<Blk("block", NoSep, "", body, close, <<>>)>>)
      [] form = "switch" -> Blk("switch", Gap(1), "", <<Arm("case", Gap(1), body)>>, close, <<>>)
      [] form = "select" -> Blk("select", Gap(1), "", <<Arm("comm", Gap(1), body)>>, close, <<>>)
      [] OTHER           -> Blk(form, Gap(1), "", body, close, <<>>)

TailStmts ==
    {If(Gap(1), "x > 0", <<>>), If(Gap(1), "x > 0", Else), Leaf("defer", Gap(1)),
     Blk("for", Gap(1), "", Inner, Gap(1), <<>>), Blk("assignfn", Gap(1), "", Inner, Gap(1), <<>>),
     Switch("switch", Gap(1)), Leaf("assignlit", Gap(1)), Leaf("expr", Gap(1))}

NestedFiles ==
    {FileShape("a.go", TRUE, <<Wrap(w, <<cur>>, close)>>, after, FALSE) :
        w \in {"for", "if", "else", "block", "assignfn", "go", "switch", "select"},
        cur \in TailStmts, close \in Seps, after \in {Gap(1), Inl1, Cmt1}}

\* Two statements at the start of the body of another statement.
NestedPairFiles ==
    {FileShape("a.go", TRUE, <<Wrap(w, <<cur, Leaf("expr", sep)>>, Gap(1))>>, Gap(1), FALSE) :
        w \in {"for", "switch", "select"},
        cur \in {If(Gap(1), "x > 0", <<>>), Leaf("defer", Gap(1)),
                 Blk("assignfn", Gap(1), "", Inner, Gap(1), <<>>)},
        sep \in Seps}

\* A statement the matcher rejects as error guard, and a defer after it, at
\* the start of the body of another statement.
NestedDeferFiles ==
    {FileShape("a.go", TRUE, <<Wrap(w, <<cur, Leaf("defer", sep)>>, Gap(1))>>, Gap(1), FALSE) :
        w \in {"for", "switch", "select"},
        cur \in {If(Gap(1), "err == nil", <<>>), If(Gap(1), "p != nil", <<>>),
                 If(Gap(1), "err != nil", <<>>), Blk("for", Gap(1), "", Inner, Gap(1), <<>>),
                 Switch("switch", Gap(1))},
        sep \in {Gap(1), Gap(2)}}

\* Guards, defers and plain statements in a row.
RunSeps == {Gap(1), Gap(2)}

RunStmts(sep) ==
    {If(sep, "err != nil", <<>>), If(sep, "p != nil", <<>>), Leaf("defer", sep),
     Leaf("expr", sep), Blk("for", sep, "", Inner, Gap(1), <<>>)}

RECURSIVE Runs(_)
Runs(n) ==
    IF n = 1 THEN {<<s>> : s \in RunStmts(Gap(1))}
    ELSE Runs(n - 1) \cup
         {Append(r, s) : r \in {q \in Runs(n - 1) : Len(q) = n - 1},
                         s \in UNION {RunStmts(sep) : sep \in RunSeps}}

RunFiles ==
    {FileShape("a.go", ti, body, Gap(1), FALSE) : ti \in BOOLEAN, body \in Runs(MaxRun)}

\* The bodies of the arms of a switch or select.
ArmBodies ==
    {<<>>, Inner, <<Leaf("expr", Gap(0))>>, <<If(Gap(1), "x > 0", <<>>)>>,
     <<If(Gap(1), "x > 0", Else)>>, <<Leaf("assignlit", Gap(1))>>,
     <<If(Gap(1), "x > 0", <<>>), Leaf("expr", Gap(1))>>}

\* A switch or select of two arms, what stands between them, and a statement
\* on the line after it.
ClauseFilesOf(f) ==
    {FileShape("a.go", TRUE,
               <<Blk(f, Gap(1), "",
                     <<Arm(ArmForm(f), Gap(1), b1), Arm(ArmForm(f), sep, b2)>>, Gap(1), <<>>),
                 Leaf("expr", Gap(1))>>,
               Gap(1), FALSE) :
        b1 \in ArmBodies, sep \in Seps, b2 \in ArmBodies}

ClauseFiles == UNION {ClauseFilesOf(f) : f \in {"switch", "typeswitch", "select"}}

\* A switch or select of one to MaxArms arms.
RECURSIVE Arms(_, _)
Arms(form, n) ==
    IF n = 1 THEN {<<Arm(form, Gap(1), b)>> : b \in {<<>>, Inner}}
    ELSE Arms(form, n - 1) \cup
         {Append(a, Arm(form, sep, b)) : a \in {q \in Arms(form, n - 1) : Len(q) = n - 1},
                                         sep \in {Gap(1), Gap(2), Cmt1},
                                         b \in {<<>>, Inner, <<If(Gap(1), "x > 0", <<>>)>>}}

ArmFilesOf(f) ==
    {FileShape("a.go", TRUE, <<Blk(f, Gap(1), "", arms, close, <<>>)>>, Gap(1), FALSE) :
        arms \in Arms(ArmForm(f), MaxArms), close \in {Gap(1), Cmt1}}

ArmFiles == UNION {ArmFilesOf(f) : f \in {"switch", "typeswitch", "select"}}

\* A literal or type declaration, a block statement and its successor.
LitFiles ==
    {FileShape("a.go", TRUE, <<Leaf(f, Gap(1)), If(sep, "x > 0", <<>>), Leaf("expr", nsep)>>,
               Gap(1), FALSE) :
        f \in {"assignlit", "varlit", "vartype"}, sep \in {Gap(1), Gap(2), Cmt1}, nsep \in Seps}

\* Three statements in a row and a comment on the line after the last.
OrderFiles ==
    {FileShape("a.go", TRUE, <<s1, s2, s3>>, Cmt1, FALSE) :
        s1 \in {Blk("for", Gap(1), "", Inner, Gap(1), <<>>), Leaf("defer", Gap(1))},
        s2 \in UNION {{If(sep, "x > 0", Else), Leaf("defer", sep), Leaf("expr", sep)} :
                         sep \in {Gap(1), Gap(2), Cmt1}},
        s3 \in UNION {{Blk("assignfn", sep, "", Inner, Gap(1), <<>>), Switch("switch", sep),
                        Leaf("defer", sep), Leaf("expr", sep)} : sep \in {Gap(1), Gap(2)}}}

\* An error guard, with or without init statement and else branches, two
\* defers and a call, with or without comments between them.
ExemptFiles ==
    {FileShape("a.go", TRUE,
               <<If(Gap(1), c, els), Leaf("defer", s1), Leaf("defer", s2), Leaf("expr", Gap(1))>>,
               Gap(1), FALSE) :
        c \in {"err != nil", "err := g(); err != nil"},
        els \in {<<>>, Else, <<If(NoSep, "ok", <<>>)>>},
        s1 \in {Gap(1), Gap(2), Cmt1, Inl1},
        s2 \in {Gap(1), Gap(2), Cmt1, Inl1}}

\* Files the exclude pattern of the analyzer matches.
ExcludedFiles ==
    {FileShape("a_excluded.go", TRUE, <<cur, Leaf("expr", Gap(1))>>, Gap(1), FALSE) :
        cur \in Stmts(Gap(1))}

FileShapes ==
    PairFiles \cup LastFiles \cup NestedFiles \cup NestedPairFiles \cup NestedDeferFiles
    \cup RunFiles \cup OrderFiles \cup ExemptFiles
    \cup ClauseFiles \cup ArmFiles \cup LitFiles \cup ExcludedFiles

\* -------------------------------------------------------------- the state
VARIABLES
    file,      \* the parsed file under analysis
    exclude,   \* the analyzer's exclude patterns
    pc,        \* "run": before run; "inspect": in ast.Inspect; "done": run returned
    idx,       \* the index in Visits(file) of the node ast.Inspect visits next
    diags,     \* the diagnostics reported in this run, in order
    pass,      \* 1: the analysis of the file as written; 2: after the fixes
    first,     \* the diagnostics of pass 1, once the fixes are applied
    applied,   \* the insertion offsets applied between pass 1 and pass 2
    calls,     \* the calls of Set made through the flags, in order
    err,       \* what the last call of Set returned
    passes     \* the runs of the analyzer on several packages at a time

vars == <<file, exclude, pc, idx, diags, pass, first, applied, calls, err, passes>>

Init ==
    /\ \E fs \in FileShapes : file = File(fs)
    /\ exclude = Set(NoPatterns, ".*_excluded\\.go").e
    /\ calls = <<[flag |-> "exclude", value |-> ".*_excluded\\.go"]>>
    /\ err = NoErr
    /\ passes = <<>>
    /\ pc = "run"
    /\ idx = 1
    /\ diags = <<>>
    /\ pass = 1
    /\ first = <<>>
    /\ applied = <<>>

\* run: the file is skipped, and run returns.
SkipFile ==
    /\ pc = "run"
    /\ \E wd \in Getwd : shouldSkipFile(exclude, file, wd)
    /\ pc' = "done"
    /\ UNCHANGED <<file, exclude, idx, diags, pass, first, applied, calls, err, passes>>

\* run: ast.Inspect starts on the file.
RunFile ==
    /\ pc = "run"
    /\ \E wd \in Getwd : ~shouldSkipFile(exclude, file, wd)
    /\ pc' = "inspect"
    /\ idx' = 1
    /\ UNCHANGED <<file, exclude, diags, pass, first, applied, calls, err, passes>>

Visiting(types) ==
    /\ pc = "inspect"
    /\ idx <= Len(Visits(file))
    /\ Visits(file)[idx].type \in types

Report(ds) ==
    /\ diags' = diags \o ds
    /\ idx' = idx + 1
    /\ UNCHANGED <<file, exclude, pc, pass, first, applied, calls, err, passes>>

\* inspectNode, one action per case of its type switch.
InspectBlockStmt ==
    /\ Visiting({"BlockStmt"})
    /\ Report(checkStatements(file, Visits(file)[idx].node.body))

InspectCaseClause ==
    /\ Visiting({"CaseClause"})
    /\ Report(checkStatements(file, Visits(file)[idx].node.body))

InspectSwitchStmt ==
    /\ Visiting({"SwitchStmt"})
    /\ Report(IF Visits(file)[idx].node.hasBody
              THEN checkCaseClauses(file, Visits(file)[idx].node.body) ELSE <<>>)

InspectTypeSwitchStmt ==
    /\ Visiting({"TypeSwitchStmt"})
    /\ Report(IF Visits(file)[idx].node.hasBody
              THEN checkCaseClauses(file, Visits(file)[idx].node.body) ELSE <<>>)

InspectSelectStmt ==
    /\ Visiting({"SelectStmt"})
    /\ Report(IF Visits(file)[idx].node.hasBody
              THEN checkCommClauses(file, Visits(file)[idx].node.body) ELSE <<>>)

\* Any other node: inspectNode does nothing.
InspectOther ==
    /\ pc = "inspect"
    /\ idx <= Len(Visits(file))
    /\ Visits(file)[idx].type \notin
         {"BlockStmt", "CaseClause", "SwitchStmt", "TypeSwitchStmt", "SelectStmt"}
    /\ Report(<<>>)

\* ast.Inspect has visited every node: run returns.
Return ==
    /\ pc = "inspect"
    /\ idx > Len(Visits(file))
    /\ pc' = "done"
    /\ UNCHANGED <<file, exclude, idx, diags, pass, first, applied, calls, err, passes>>

\* The suggested fixes of all diagnostics are applied to the text, identical
\* edits once or each of them, and the result is parsed and analysed again.
ApplyFixes ==
    /\ pc = "done"
    /\ pass = 1
    /\ diags # <<>>
    /\ \E E \in {EditsOf(diags), Dedup(EditsOf(diags))} :
          /\ file' = ApplyEdits(file, E)
          /\ applied' = E
    /\ first' = diags
    /\ diags' = <<>>
    /\ pass' = 2
    /\ pc' = "run"
    /\ idx' = 1
    /\ UNCHANGED <<exclude, calls, err, passes>>

Next ==
    \/ SkipFile
    \/ RunFile
    \/ InspectBlockStmt
    \/ InspectCaseClause
    \/ InspectSwitchStmt
    \/ InspectTypeSwitchStmt
    \/ InspectSelectStmt
    \/ InspectOther
    \/ Return
    \/ ApplyFixes

Spec == Init /\ [][Next]_vars

\* ------------------------------------------------------------ the flags
\* The values passed to -exclude and -e: three regular expressions and two
\* strings regexp.Compile rejects.
SetValues == {".*_excluded\\.go", "^gen/", "\\.go$", "[", "a(b"}

\* New: an analyzer without patterns, its flags "exclude" and "e" both bound
\* to nlab.exclude; no file is analysed yet.
FlagInit ==
    /\ exclude = NoPatterns
    /\ calls = <<>>
    /\ err = NoErr
    /\ passes = <<>>
    /\ file = File(FileShape("a.go", TRUE, <<>>, Gap(1), FALSE))
    /\ pc = "flags"
    /\ idx = 1
    /\ diags = <<>>
    /\ pass = 1
    /\ first = <<>>
    /\ applied = <<>>

\* analyzer.Flags.Set(flag, value): Set is called on the patterns.
FlagSet(flag, value) ==
    /\ pc = "flags"
    /\ Len(calls) < MaxSets
    /\ calls' = Append(calls, [flag |-> flag, value |-> value])
    /\ exclude' = Set(exclude, value).e
    /\ err' = Set(exclude, value).err
    /\ UNCHANGED <<file, pc, idx, diags, pass, first, applied, passes>>

SetExclude == \E value \in SetValues : FlagSet("exclude", value)

SetE == \E value \in SetValues : FlagSet("e", value)

FlagNext == SetExclude \/ SetE

FlagSpec == FlagInit /\ [][FlagNext]_vars

\* ----------------------------------------------- several packages at a time
\* The driver calls run once per package, the calls running side by side on
\* one analyzer; each call has its own pass: its files, its diagnostics.

\* inspectNode: the diagnostics it reports for one node.
inspectNode(f, v) ==
    CASE v.type \in {"BlockStmt", "CaseClause"} -> checkStatements(f, v.node.body)
      [] v.type \in {"SwitchStmt", "TypeSwitchStmt"} ->
            IF v.node.hasBody THEN checkCaseClauses(f, v.node.body) ELSE <<>>
      [] v.type = "SelectStmt" ->
            IF v.node.hasBody THEN checkCommClauses(f, v.node.body) ELSE <<>>
      [] OTHER -> <<>>

\* A diagnostic as the pass holds it: its Pos tells the file it is in.
InFile(f, d) == [file |-> f.name, pos |-> d.pos, message |-> d.message, edits |-> d.edits]

InFileSeq(f, ds) == [i \in DOMAIN ds |-> InFile(f, ds[i])]

\* The patterns after Set was called with each of the values.
RECURSIVE SetAll(_, _)
SetAll(e, values) ==
    IF values = <<>> THEN e ELSE SetAll(Set(e, Head(values)).e, Tail(values))

\* The pattern lists of an analyzer configured by up to two -exclude flags.
ExcludeLists ==
    LET V == {v \in SetValues : Compile(v).err.nil}
    IN  {<<>>} \cup {<<v>> : v \in V} \cup {<<v, w>> : v \in V, w \in V}

\* The bodies of the files: a defer with a call on the next line, a call
\* alone, a switch with its arms on adjacent lines.
DriverBodies ==
    {<<Leaf("defer", Gap(1)), Leaf("expr", Gap(1))>>,
     <<Leaf("expr", Gap(1))>>,
     <<Blk("switch", Gap(1), "", <<Arm("case", Gap(1), Inner), Arm("case", Gap(1), Inner)>>,
           Gap(1), <<>>)>>}

DriverFile(name, body) == File(FileShape(name, TRUE, body, Gap(1), FALSE))

\* A pass: the files of the package, and where its call of run stands.
NewPass(files) ==
    [files |-> files, wd |-> Path(FALSE, <<>>), pc |-> "run", fi |-> 1, idx |-> 1,
     inspected |-> {}, diags |-> <<>>]

\* Package w with a.go and a_excluded.go, package w/gen with a.go.
DriverInit ==
    /\ \E values \in ExcludeLists :
          /\ exclude = SetAll(NoPatterns, values)
          /\ calls = [i \in DOMAIN values |-> [flag |-> "exclude", value |-> values[i]]]
    /\ err = NoErr
    /\ \E b1 \in DriverBodies, b2 \in DriverBodies, b3 \in DriverBodies :
          passes = <<NewPass(<<DriverFile("a.go", b1), DriverFile("a_excluded.go", b2)>>),
                     NewPass(<<DriverFile("gen/a.go", b3)>>)>>
    /\ file = File(FileShape("a.go", TRUE, <<>>, Gap(1), FALSE))
    /\ pc = "driver"
    /\ idx = 1
    /\ diags = <<>>
    /\ pass = 1
    /\ first = <<>>
    /\ applied = <<>>

Step(p, new) ==
    /\ passes' = [passes EXCEPT ![p] = new]
    /\ UNCHANGED <<file, exclude, pc, idx, diags, pass, first, applied, calls, err>>

\* run: os.Getwd.
RunGetwd(p) ==
    /\ passes[p].pc = "run"
    /\ \E wd \in Getwd : Step(p, [passes[p] EXCEPT !.wd = wd, !.pc = "loop"])

\* run: the next file of pass.Files is skipped.
RunSkip(p) ==
    /\ passes[p].pc = "loop"
    /\ passes[p].fi <= Len(passes[p].files)
    /\ shouldSkipFile(exclude, passes[p].files[passes[p].fi], passes[p].wd)
    /\ Step(p, [passes[p] EXCEPT !.fi = @ + 1])

\* run: ast.Inspect starts on the next file of pass.Files.
RunInspect(p) ==
    /\ passes[p].pc = "loop"
    /\ passes[p].fi <= Len(passes[p].files)
    /\ ~shouldSkipFile(exclude, passes[p].files[passes[p].fi], passes[p].wd)
    /\ Step(p, [passes[p] EXCEPT !.pc = "inspect", !.idx = 1,
                                  !.inspected = @ \cup {passes[p].fi}])

\* RunNode with one list of diagnostics for all passes.
RunNode_SharedSink(p) ==
    /\ passes[p].pc = "inspect"
    /\ passes[p].idx <= Len(Visits(passes[p].files[passes[p].fi]))
    /\ LET f == passes[p].files[passes[p].fi]
           ds == InFileSeq(f, inspectNode(f, Visits(f)[passes[p].idx]))
       IN  passes' = [q \in DOMAIN passes |->
                        [passes[q] EXCEPT !.diags = @ \o ds,
                                          !.idx = IF q = p THEN @ + 1 ELSE @]]
    /\ UNCHANGED <<file, exclude, pc, idx, diags, pass, first, applied, calls, err>>

\* ast.Inspect calls inspectNode on the next node; pass.Report takes the
\* diagnostics.
RunNode(p) ==
    /\ passes[p].pc = "inspect"
    /\ passes[p].idx <= Len(Visits(passes[p].files[passes[p].fi]))
    /\ LET f == passes[p].files[passes[p].fi]
       IN  Step(p, [passes[p] EXCEPT
                       !.diags = @ \o InFileSeq(f, inspectNode(f, Visits(f)[passes[p].idx])),
                       !.idx = @ + 1])

\* ast.Inspect returns: on to the next file.
RunNextFile(p) ==
    /\ passes[p].pc = "inspect"
    /\ passes[p].idx > Len(Visits(passes[p].files[passes[p].fi]))
    /\ Step(p, [passes[p] EXCEPT !.pc = "loop", !.fi = @ + 1])

\* run returns.
RunReturn(p) ==
    /\ passes[p].pc = "loop"
    /\ passes[p].fi > Len(passes[p].files)
    /\ Step(p, [passes[p] EXCEPT !.pc = "done"])

DriverNext ==
    \/ \E p \in DOMAIN passes : RunGetwd(p)
    \/ \E p \in DOMAIN passes : RunSkip(p)
    \/ \E p \in DOMAIN passes : RunInspect(p)
    \/ \E p \in DOMAIN passes : RunNode(p)
    \/ \E p \in DOMAIN passes : RunNextFile(p)
    \/ \E p \in DOMAIN passes : RunReturn(p)

DriverSpec == DriverInit /\ [][DriverNext]_vars

\* ------------------------------------------------- what the claims speak of
\* The analysis of a file that no exclude pattern matches has returned.
Analysed == pc = "done" /\ file.name = "a.go"

\* The compound bodies of a file: the statement lists of its blocks
\* ("BlockStmt"), switch arms ("CaseClause") and select arms ("CommClause").
BodiesOf(f, types) ==
    {Visits(f)[i].node.body : i \in {j \in DOMAIN Visits(f) : Visits(f)[j].type \in types}}

AllBodies == {"BlockStmt", "CaseClause", "CommClause"}

\* The bodies inspectNode hands to checkStatements.
ScannedBodies == {"BlockStmt", "CaseClause"}

CountAt(pos, msg) ==
    Cardinality({j \in DOMAIN diags : diags[j].pos = pos /\ diags[j].message = msg})

AnyAt(pos) == \E j \in DOMAIN diags : diags[j].pos = pos

BlockKinds == {"IfStmt", "ForStmt", "RangeStmt", "SwitchStmt", "TypeSwitchStmt", "SelectStmt"}

\* A statement that requires a trailing blank line; its boundary is its End.
RequiresBlank(n) ==
    \/ n.kind \in BlockKinds \cup {"DeferStmt"}
    \/ n.kind \in {"AssignStmt", "DeclStmt"} /\ n.rhs = "FuncLit"

\* An if statement that compares an identifier of an error type with nil.
IsGuard(f, n) ==
    n.kind = "IfStmt" /\ n.cond \in {"err != nil", "nil != err", "e != nil", "err := g(); err != nil"}
    /\ f.typesInfo

Excepted(f, cur, nxt) == nxt.kind = "DeferStmt" /\ (IsGuard(f, cur) \/ cur.kind = "DeferStmt")

Cmts(f) == {f.comments[i] : i \in DOMAIN f.comments}

Between(f, lo, hi) == {c \in Cmts(f) : lo < c /\ c < hi}

NotOnLine(f, S, l) == {c \in S : Line(f, c) # l}

Min(S) == CHOOSE x \in S : \A y \in S : x <= y

\* ------------------------------------------------------------------- C1
\* C1: after the suggested edits of all diagnostics of one analysis are
\* applied and the result is analysed again, no diagnostic is anchored at a
\* construct that the first analysis flagged.
C1_Idempotence ==
    (pc = "done" /\ pass = 2) =>
        \A i \in DOMAIN first : ~AnyAt(ShiftEnd(applied, first[i].pos))

C1_Witness == pc = "done" /\ pass = 2 /\ Len(first) >= 2 /\ Len(applied) >= 2 /\ diags = <<>>

\* ------------------------------------------------------------------- C2
AdjacencyRule(types) ==
    Analysed =>
        \A b \in BodiesOf(file, types) : \A i \in 1..(Len(b) - 1) :
            (/\ b[i].kind \in BlockKinds
             /\ ~Excepted(file, b[i], b[i + 1])
             /\ Between(file, b[i].end, b[i + 1].pos) = {})
            => CountAt(b[i].end, MsgBlock) =
                 IF Line(file, b[i + 1].pos) = Line(file, b[i].end) + 1 THEN 1 ELSE 0

\* C2: in every compound body, nested ones and the arms of switch and
\* select included, a block statement with no comment between it and its
\* successor gets exactly one "missing newline after block statement" at its
\* boundary if the successor starts on the next line, and none otherwise.
C2_BasicAdjacency == AdjacencyRule(AllBodies)

\* The same in the bodies inspectNode hands to the scanner.
C2_ScannedBodies == AdjacencyRule(ScannedBodies)

\* ------------------------------------------------------------------- C3
CommentRule(types) ==
    Analysed =>
        \A b \in BodiesOf(file, types) : \A i \in 1..(Len(b) - 1) :
            LET L  == Line(file, b[i].end)
                NI == NotOnLine(file, Between(file, b[i].end, b[i + 1].pos), L)
            IN  (RequiresBlank(b[i]) /\ ~Excepted(file, b[i], b[i + 1]) /\ NI # {})
                => CountAt(b[i].end, MsgBlock) = IF Line(file, Min(NI)) = L + 1 THEN 1 ELSE 0

\* C3: for a pair whose first statement requires a blank line, the first
\* comment group between the boundary and the successor that is not on the
\* boundary's line decides alone: one diagnostic at the boundary if it is on
\* the next line, none if it is on a later line, wherever the successor is.
C3_CommentMediated == CommentRule(AllBodies)

C3_ScannedBodies == CommentRule(ScannedBodies)

\* ------------------------------------------------------------------- C4
InlineRule(types) ==
    Analysed =>
        \A b \in BodiesOf(file, types) : \A i \in 1..(Len(b) - 1) :
            LET L  == Line(file, b[i].end)
                B  == Between(file, b[i].end, b[i + 1].pos)
                NI == NotOnLine(file, B, L)
            IN  (RequiresBlank(b[i]) /\ ~Excepted(file, b[i], b[i + 1]) /\ B # NI)
                => CountAt(b[i].end, MsgBlock) =
                     IF \/ NI # {} /\ Line(file, Min(NI)) = L + 1
                        \/ NI = {} /\ Line(file, b[i + 1].pos) = L + 1
                     THEN 1 ELSE 0

\* C4: a comment on the boundary's line does not decide: with one there, the
\* pair is flagged exactly when the next comment group, or without one the
\* successor, starts on the line after the boundary.
C4_InlineSkip == InlineRule(AllBodies)

C4_ScannedBodies == InlineRule(ScannedBodies)

\* ------------------------------------------------------------------- C5
TrailingRule(types) ==
    Analysed =>
        \A b \in BodiesOf(file, types) :
            b # <<>> =>
                LET last == b[Len(b)]
                    L    == Line(file, last.end)
                    A    == NotOnLine(file, {c \in Cmts(file) : c > last.end}, L)
                IN  (RequiresBlank(last) /\ A # {})
                    => CountAt(last.end, MsgBlock) = IF Line(file, Min(A)) = L + 1 THEN 1 ELSE 0

\* C5: when the last statement of a body requires a blank line, the first
\* comment group after its boundary that is not on the boundary's line
\* decides: one diagnostic at the boundary if it starts on the next line,
\* none if it starts later.
C5_TrailingComment == TrailingRule(AllBodies)

C5_ScannedBodies == TrailingRule(ScannedBodies)

\* ------------------------------------------------------------------- C6
\* The blocks of a file: their statement list and the offset of their
\* closing brace.
Blocks(f) ==
    {[body  |-> Visits(f)[i].node.body,
      close |-> (IF Visits(f)[i].node.kind = "BlockStmt"
                 THEN Visits(f)[i].node.end ELSE Visits(f)[i].node.bodyEnd) - 1]
       : i \in {j \in DOMAIN Visits(f) : Visits(f)[j].type = "BlockStmt"}}

\* C6: a statement that requires a blank line, is the last of its block and
\* has no comment between it and the block's closing brace gets no
\* diagnostic.
C6_TailExemption ==
    Analysed =>
        \A k \in Blocks(file) :
            k.body # <<>> =>
                LET last == k.body[Len(k.body)]
                IN  (RequiresBlank(last) /\ Between(file, last.end, k.close) = {})
                    => ~AnyAt(last.end)

RECURSIVE InnerEnds(_)
InnerEnds(n) ==
    IF n.els = <<>> THEN {}
    ELSE {n.bodyEnd} \cup (IF n.els[1].kind = "IfStmt" THEN InnerEnds(n.els[1]) ELSE {})

Chains(f) ==
    UNION {{b[i] : i \in {j \in DOMAIN b : b[j].kind = "IfStmt" /\ b[j].els # <<>>}}
             : b \in BodiesOf(f, AllBodies)}

\* C8: of an if / else-if / else chain no diagnostic is anchored at the end
\* of the first or of an intermediate branch, and at most one "missing
\* newline after block statement" is anchored at the end of the last branch.
C8_ChainUnity ==
    Analysed =>
        \A n \in Chains(file) :
            /\ \A e \in InnerEnds(n) : ~AnyAt(e)
            /\ CountAt(n.end, MsgBlock) <= 1

C8_Witness ==
    /\ Analysed
    /\ \E n \in Chains(file) :
          /\ n.els[1].kind = "IfStmt" /\ n.els[1].els # <<>>
          /\ CountAt(n.end, MsgBlock) = 1

\* ------------------------------------------------------------------- C9
IsLiteral(n) == n.kind \in {"AssignStmt", "DeclStmt"} /\ n.rhs \in {"CompositeLit", "TypeSpec"}

\* C9: no diagnostic is anchored at the closing delimiter of a composite
\* literal or local type definition, and a block statement that follows one
\* is checked against its own successor as any block statement is.
C9_LiteralImmunity ==
    Analysed =>
        \A b \in BodiesOf(file, AllBodies) : \A i \in DOMAIN b :
            IsLiteral(b[i]) =>
                /\ ~AnyAt(b[i].end)
                /\ (/\ i + 2 <= Len(b)
                    /\ b[i + 1].kind \in BlockKinds
                    /\ Between(file, b[i + 1].end, b[i + 2].pos) = {})
                   => CountAt(b[i + 1].end, MsgBlock) =
                        IF Line(file, b[i + 2].pos) = Line(file, b[i + 1].end) + 1
                        THEN 1 ELSE 0

\* ------------------------------------------------------------------ C10
\* C10: no diagnostic is anchored at an error guard that a defer follows,
\* nor at a defer that another defer follows.
C10_DeferUnit ==
    Analysed =>
        \A b \in BodiesOf(file, AllBodies) : \A i \in 1..(Len(b) - 1) :
            Excepted(file, b[i], b[i + 1]) => ~AnyAt(b[i].end)

\* A guard, a defer on the next line and a second defer on the line after.
C10_Witness ==
    /\ Analysed /\ pass = 1
    /\ \E b \in BodiesOf(file, AllBodies) :
          /\ Len(b) = 3
          /\ IsGuard(file, b[1]) /\ b[2].kind = "DeferStmt" /\ b[3].kind = "DeferStmt"
          /\ Line(file, b[2].pos) = Line(file, b[1].end) + 1
          /\ Line(file, b[3].pos) = Line(file, b[2].end) + 1

\* ------------------------------------------------------------------ C11
\* The statements of the compound bodies of a file.
StmtsOf(f) == UNION {{b[i] : i \in DOMAIN b} : b \in BodiesOf(f, AllBodies)}

DeferRunRule(types) ==
    Analysed =>
        \A b \in BodiesOf(file, types) : \A i \in 1..(Len(b) - 1) :
            LET L  == Line(file, b[i].end)
                NI == NotOnLine(file, Between(file, b[i].end, b[i + 1].pos), L)
            IN  (b[i].kind = "DeferStmt" /\ b[i + 1].kind # "DeferStmt") =>
                    /\ Line(file, b[i + 1].pos) = L + 1
                       => CountAt(b[i].end, MsgBlock) = 1
                    /\ (Line(file, b[i + 1].pos) > L + 1 /\ NI = {})
                       => CountAt(b[i].end, MsgBlock) = 0

\* C11: the last defer of a run, followed by a statement that is no defer:
\* if that statement starts on the line after the defer's end, exactly one
\* "missing newline after block statement" is anchored at the defer's end;
\* with only blank lines in between, none is.
C11_DeferRun == DeferRunRule(AllBodies)

C11_ScannedBodies == DeferRunRule(ScannedBodies)

\* ------------------------------------------------------------------ C12
\* An if statement comparing an identifier with nil by "!=".
ComparesWithNil(n) ==
    n.kind = "IfStmt" /\ n.cond \in {"err != nil", "nil != err", "e != nil", "err := g(); err != nil", "p != nil", "u != nil"}

\* No type is at hand for the identifier the if statement compares.
TypeUnavailable(f, n) == ~f.typesInfo \/ n.cond = "u != nil"

\* With the types at hand, the matcher accepts exactly the "!=" comparisons
\* of an identifier of an error type (error, *MyErr) with nil, either way
\* round and whatever the name.
C12_Recognition ==
    pc = "done" => \A n \in StmtsOf(file) :
        ~TypeUnavailable(file, n) =>
            (isErrorCheckIfStmt(file, n)
               <=> (n.kind = "IfStmt"
                    /\ n.cond \in {"err != nil", "nil != err", "e != nil", "err := g(); err != nil"}))

RejectedRule(types) ==
    Analysed =>
        \A b \in BodiesOf(file, types) : \A i \in 1..(Len(b) - 1) :
            (/\ file.typesInfo
             /\ \/ b[i].kind = "IfStmt" /\ b[i].cond \in {"err == nil", "p != nil"}
                \/ b[i].kind \in {"ForStmt", "RangeStmt", "SwitchStmt", "TypeSwitchStmt",
                                  "SelectStmt"}
             /\ b[i + 1].kind = "DeferStmt"
             /\ Line(file, b[i + 1].pos) = Line(file, b[i].end) + 1)
            => CountAt(b[i].end, MsgBlock) = 1

\* C12: the matcher accepts an if statement exactly when it compares, by
\* "!=", an identifier of an error type with nil; and a defer on the line
\* after an "==" comparison, after a comparison of a *int, or after a for,
\* switch or select statement is flagged.
C12_ErrorGuard == C12_Recognition /\ RejectedRule(AllBodies)

C12_ScannedBodies == C12_Recognition /\ RejectedRule(ScannedBodies)

\* ------------------------------------------------------------------ C13
\* C13: without type information for the pass, or without a recorded type
\* for the compared identifier, the matcher returns false for every
\* statement.
C13_FailClosed ==
    pc = "done" =>
        \A n \in StmtsOf(file) : TypeUnavailable(file, n) => ~isErrorCheckIfStmt(file, n)

\* "if err != nil" analysed without type information, a defer on the next
\* line: the matcher has returned false, the pair is flagged.
C13_Witness ==
    /\ Analysed /\ pass = 1 /\ ~file.typesInfo
    /\ Len(file.list) >= 2
    /\ file.list[1].kind = "IfStmt" /\ file.list[1].cond = "err != nil"
    /\ file.list[2].kind = "DeferStmt"
    /\ Line(file, file.list[2].pos) = Line(file, file.list[1].end) + 1
    /\ CountAt(file.list[1].end, MsgBlock) = 1

\* ------------------------------------------------------------------ C14
\* C14: an if statement that compares an identifier with nil while no type
\* is at hand for the identifier, followed by a defer, is skipped: no
\* diagnostic is anchored at it.
C14_FailOpen ==
    Analysed =>
        \A b \in BodiesOf(file, AllBodies) : \A i \in 1..(Len(b) - 1) :
            (ComparesWithNil(b[i]) /\ TypeUnavailable(file, b[i]) /\ b[i + 1].kind = "DeferStmt")
            => ~AnyAt(b[i].end)

\* ------------------------------------------------------------------ C15
\* The arms of the switch, type switch and select statements of a file.
ArmLists(f) ==
    {Visits(f)[i].node.body :
        i \in {j \in DOMAIN Visits(f) :
                 Visits(f)[j].type \in {"SwitchStmt", "TypeSwitchStmt", "SelectStmt"}}}

\* The line on which what follows arm i of arms starts: the first comment
\* group before the next arm that is not on line L, else the next arm.
FollowLine(f, arms, i, L) ==
    LET NI == NotOnLine(f, Between(f, arms[i].body[Len(arms[i].body)].end, arms[i + 1].pos), L)
    IN  IF NI # {} THEN Line(f, Min(NI)) ELSE Line(f, arms[i + 1].pos)

\* C15: for every arm but the last that has statements, of a switch, type
\* switch or select: if the next arm, or the first comment group before it
\* that is not on the line of the arm's last statement, starts on the line
\* after that statement's end, exactly one "missing newline after case block"
\* is anchored at that end; if a blank line separates them, no diagnostic is
\* anchored there.
C15_ClauseSpacing ==
    Analysed =>
        \A arms \in ArmLists(file) : \A i \in 1..(Len(arms) - 1) :
            arms[i].body # <<>> =>
                LET last == arms[i].body[Len(arms[i].body)]
                    L    == Line(file, last.end)
                IN  /\ FollowLine(file, arms, i, L) = L + 1 => CountAt(last.end, MsgCase) = 1
                    /\ FollowLine(file, arms, i, L) > L + 1 => ~AnyAt(last.end)

\* A select whose first arm is followed by a comment on the next line and,
\* after a blank line, by the second arm.
C15_Witness ==
    /\ Analysed /\ pass = 1
    /\ \E i \in DOMAIN Visits(file) :
          /\ Visits(file)[i].type = "SelectStmt"
          /\ LET arms == Visits(file)[i].node.body
             IN  /\ Len(arms) = 2 /\ arms[1].body # <<>>
                 /\ LET last == arms[1].body[Len(arms[1].body)]
                    IN  /\ FollowLine(file, arms, 1, Line(file, last.end))
                             = Line(file, last.end) + 1
                        /\ Line(file, arms[2].pos) > Line(file, last.end) + 1
                        /\ CountAt(last.end, MsgCase) = 1

\* ------------------------------------------------------------------ C16
\* The function holds nothing but a switch of the two arms "case 1: f()" and
\* "case 2: g()", the second on the line after f().
ScenarioC ==
    /\ Analysed /\ pass = 1
    /\ file.comments = <<>>
    /\ Len(file.list) = 1 /\ file.list[1].kind = "SwitchStmt"
    /\ Len(file.list[1].body) = 2
    /\ \A i \in 1..2 : /\ Len(file.list[1].body[i].body) = 1
                       /\ file.list[1].body[i].body[1].kind = "ExprStmt"
    /\ Line(file, file.list[1].body[2].pos) = Line(file, file.list[1].body[1].body[1].end) + 1

\* C16 as stated: the switch of scenario C yields two diagnostics.
C16_ScenarioC_Two == ScenarioC => Len(diags) = 2

\* C16, amended: the switch of scenario C yields exactly one diagnostic,
\* "missing newline after case block" at the end of f(), the last statement
\* of the first arm; the last arm yields none.
C16_ScenarioC_One ==
    ScenarioC =>
        /\ Len(diags) = 1
        /\ diags[1].message = MsgCase
        /\ diags[1].pos = file.list[1].body[1].body[1].end

C16_Witness == ScenarioC /\ Len(diags) = 1

\* ------------------------------------------------------------------ C17
\* C17: every "missing newline after case block" is anchored at the end of
\* the last statement of an arm that has statements and is not the last arm
\* of its switch or select: none for an arm without statements, none in a
\* switch of fewer than two arms, none in the last arm.
C17_ClauseExemptions ==
    Analysed =>
        \A j \in DOMAIN diags :
            diags[j].message = MsgCase =>
                \E arms \in ArmLists(file) : \E i \in 1..(Len(arms) - 1) :
                    /\ arms[i].body # <<>>
                    /\ diags[j].pos = arms[i].body[Len(arms[i].body)].end

\* An arm without statements, the last arm on the next line, a statement on
\* the line after the switch: nothing is reported for the arms.
C17_Witness ==
    /\ Analysed /\ pass = 1
    /\ \E arms \in ArmLists(file) :
          /\ Len(arms) = 2 /\ arms[1].body = <<>> /\ arms[2].body # <<>>
          /\ Line(file, arms[2].pos) = Line(file, arms[1].end) + 1
    /\ Len(file.list) = 2
    /\ Line(file, file.list[2].pos) = Line(file, file.list[1].end) + 1
    /\ \A j \in DOMAIN diags : diags[j].message # MsgCase

\* ------------------------------------------------------------------ C18
\* C18: the scanner runs on the body of every arm of a switch, type switch
\* and select: an if statement in an arm, followed on the next line by
\* another statement of the arm, gets one "missing newline after block
\* statement".
C18_ArmBodies ==
    Analysed =>
        \A b \in BodiesOf(file, {"CaseClause", "CommClause"}) : \A i \in 1..(Len(b) - 1) :
            (/\ b[i].kind = "IfStmt"
             /\ b[i + 1].kind # "DeferStmt"
             /\ Line(file, b[i + 1].pos) = Line(file, b[i].end) + 1)
            => CountAt(b[i].end, MsgBlock) = 1

\* The same for the arms of switch and type switch only.
C18_CaseClauses ==
    Analysed =>
        \A b \in BodiesOf(file, {"CaseClause"}) : \A i \in 1..(Len(b) - 1) :
            (/\ b[i].kind = "IfStmt"
             /\ b[i + 1].kind # "DeferStmt"
             /\ Line(file, b[i + 1].pos) = Line(file, b[i].end) + 1)
            => CountAt(b[i].end, MsgBlock) = 1

\* ------------------------------------------------------------------ C19
\* C19: every diagnostic is positioned at the end of what it flags: "missing
\* newline after block statement" at the End of a statement that requires a
\* blank line (the closing brace of its block, the end of the last branch of
\* a chain, the end of the function literal, the end of the defer), "missing
\* newline after case block" at the End of the last statement of an arm; and
\* at no statement's start.
C19_PositionAtEnd ==
    pc = "done" =>
        \A j \in DOMAIN diags :
            /\ diags[j].message = MsgBlock =>
                  \E n \in StmtsOf(file) : RequiresBlank(n) /\ diags[j].pos = n.end
            /\ diags[j].message = MsgCase =>
                  \E arms \in ArmLists(file) : \E i \in DOMAIN arms :
                      /\ arms[i].body # <<>>
                      /\ diags[j].pos = arms[i].body[Len(arms[i].body)].end
            /\ \A n \in StmtsOf(file) : diags[j].pos # n.pos

\* Both messages reported, one of the first at the end of an if-else chain.
C19_Witness ==
    /\ Analysed /\ pass = 1
    /\ \E j \in DOMAIN diags : diags[j].message = MsgCase
    /\ \E n \in Chains(file) : CountAt(n.end, MsgBlock) = 1

\* ------------------------------------------------------------------ C20
\* The offset at which the line after the line of pos starts; the size of
\* the file if pos is on its last line.
InsertionPoint(f, pos) ==
    LET S == {f.lines[i] : i \in DOMAIN f.lines} \cap (pos + 1)..f.size
    IN  IF S # {} THEN Min(S) ELSE f.size

\* C20: every diagnostic carries one edit, of zero width, whose text is one
\* line break, at the start of the line after the line of the diagnostic's
\* position; every comment on the line of the position lies before it.  The
\* insertion point computed for any offset of the file is the start of the
\* next line, and the size of the file for an offset on the last line.
C20_FixShape ==
    pc = "done" =>
    /\ \A pos \in 0..(file.size - 1) : findEndOfLine(file, pos) = InsertionPoint(file, pos)
    /\ \A j \in DOMAIN diags :
           /\ Len(diags[j].edits) = 1
           /\ diags[j].edits[1].end = diags[j].edits[1].pos
           /\ diags[j].edits[1].newText = "\n"
           /\ diags[j].edits[1].pos = InsertionPoint(file, diags[j].pos)
           /\ \A c \in Cmts(file) :
                 Line(file, c) = Line(file, diags[j].pos) => c < diags[j].edits[1].pos

\* A diagnostic at a boundary that a comment on the same line follows.
C20_Witness ==
    /\ Analysed /\ pass = 1
    /\ \E j \in DOMAIN diags : \E c \in Cmts(file) :
          c > diags[j].pos /\ Line(file, c) = Line(file, diags[j].pos)

\* ------------------------------------------------------------------ C23
\* An assignment or var declaration of a function literal: not invoked
\* ("FuncLit") or invoked on the spot ("CallExpr").
IsFuncLitStmt(n, rhs) == n.kind \in {"AssignStmt", "DeclStmt"} /\ n.hasBody /\ n.rhs = rhs

\* A successor in the body b, or a comment, starts on the line after pos.
NextLineTaken(f, b, i, pos) ==
    \/ i < Len(b) /\ Line(f, b[i + 1].pos) = Line(f, pos) + 1
    \/ \E c \in Cmts(f) : c > pos /\ Line(f, c) = Line(f, pos) + 1

FuncLitRule(types) ==
    Analysed =>
        \A b \in BodiesOf(file, types) : \A i \in DOMAIN b :
            /\ (IsFuncLitStmt(b[i], "FuncLit") /\ NextLineTaken(file, b, i, b[i].bodyEnd))
               => CountAt(b[i].bodyEnd, MsgBlock) = 1
            /\ IsFuncLitStmt(b[i], "CallExpr")
               => (CountAt(b[i].bodyEnd, MsgBlock) = 0 /\ CountAt(b[i].end, MsgBlock) = 0)

\* C23: an assignment or var declaration of a function literal that is not
\* invoked gets exactly one "missing newline after block statement" at the
\* end of the literal's body when a statement or a comment starts on the
\* next line; one whose literal is invoked on the spot gets none.
C23_FuncLitRule == FuncLitRule(AllBodies)

\* The same in the bodies inspectNode hands to the scanner.
C23_ScannedBodies == FuncLitRule(ScannedBodies)

\* ------------------------------------------------------------------ C25
\* The diagnostics one call of inspectNode reports.
Emitted == SubSeq(diags', Len(diags) + 1, Len(diags'))

\* C25: the diagnostics of one scan are reported in strictly ascending
\* order of position; those of one call of checkStatements are anchored at
\* statements of the scanned body, the diagnostic of an earlier statement
\* before that of a later one, so that of pair (i, i+1) comes before that of
\* pair (i+1, i+2) and that of the last statement's trailing comment last.
C25_AscendingOrder ==
    [][(pc = "inspect" /\ pc' = "inspect") =>
          /\ \A j \in 1..(Len(Emitted) - 1) : Emitted[j].pos < Emitted[j + 1].pos
          /\ Visits(file)[idx].type \in ScannedBodies =>
               LET b == Visits(file)[idx].node.body
               IN  /\ \A j \in DOMAIN Emitted : \E i \in DOMAIN b : Emitted[j].pos = b[i].end
                   /\ \A j \in DOMAIN Emitted : \A k \in DOMAIN Emitted :
                         j < k => \E i1 \in DOMAIN b : \E i2 \in DOMAIN b :
                                     /\ i1 < i2
                                     /\ Emitted[j].pos = b[i1].end
                                     /\ Emitted[k].pos = b[i2].end]_vars

\* The scan of the function body has reported a diagnostic for each of two
\* pairs and one for the comment after the last statement.
C25_Witness ==
    /\ pc = "inspect" /\ pass = 1 /\ idx = 3
    /\ Len(file.list) = 3 /\ Len(diags) = 3
    /\ \A i \in 1..3 : diags[i].pos = file.list[i].end /\ diags[i].message = MsgBlock

\* ------------------------------------------------------------------ C26
\* b[i] is the last defer of a run of defers that starts directly after an
\* error guard.
TailAfterGuard(f, b, i) ==
    /\ b[i].kind = "DeferStmt"
    /\ i = Len(b) \/ b[i + 1].kind # "DeferStmt"
    /\ \E k \in 1..(i - 1) :
          /\ IsGuard(f, b[k])
          /\ \A m \in (k + 1)..i : b[m].kind = "DeferStmt"

OtherKind(n) == n.kind \notin {"CaseClause", "CommClause"} /\ ~RequiresBlank(n)

\* C27: no "missing newline after block statement" is anchored at the end,
\* or at the closing brace, of a statement of any other kind than if, for,
\* range, switch, type switch, select, defer or the assignment or var
\* declaration of a function literal that is not invoked, whatever follows.
C27_ClosedClassification ==
    Analysed =>
        \A b \in BodiesOf(file, AllBodies) : \A i \in DOMAIN b :
            OtherKind(b[i]) =>
                /\ CountAt(b[i].end, MsgBlock) = 0
                /\ b[i].hasBody => CountAt(b[i].bodyEnd, MsgBlock) = 0
                /\ ~needsNewlineAfter(b[i])

\* A bare block in a body the scanner is called on, with a statement or a
\* comment on the line after its closing brace.
C27_Witness ==
    /\ Analysed /\ pass = 1
    /\ \E b \in BodiesOf(file, ScannedBodies) : \E i \in DOMAIN b :
          /\ b[i].kind = "BlockStmt"
          /\ NextLineTaken(file, b, i, b[i].end)
          /\ \E c \in Cmts(file) : c > b[i].end /\ Line(file, c) = Line(file, b[i].end) + 1

\* ------------------------------------------------------------------ C28
\* The offsets at which the lines of a file start.
LineStarts(f) == {f.lines[i] : i \in DOMAIN f.lines}

\* C28: no diagnostic is positioned on the last line of its file; the
\* offset of its edit is the start of the line after the position's line,
\* an existing line, and greater than the position.
C28_NeverLastLine ==
    pc = "done" =>
        \A j \in DOMAIN diags :
            /\ Line(file, diags[j].pos) < LineCount(file)
            /\ diags[j].edits[1].pos = LineStart(file, Line(file, diags[j].pos) + 1)
            /\ diags[j].edits[1].pos \in LineStarts(file)
            /\ diags[j].edits[1].pos > diags[j].pos
            /\ diags[j].edits[1].pos < file.size

\* A diagnostic on the line before the last: what triggers it stands on the
\* last line of the file.
C28_Witness ==
    /\ Analysed /\ pass = 1
    /\ \E j \in DOMAIN diags : Line(file, diags[j].pos) = LineCount(file) - 1

\* ------------------------------------------------------------------ C29
\* C29: for an error guard followed by a defer and for a defer followed by a
\* defer the scanner reports nothing and no diagnostic is anchored at the
\* first statement, whatever stands between the two: nothing, blank lines,
\* a comment on the first statement's line or on the line after it; and
\* whether or not the guard has an init statement or else branches.
C29_KindsDecide ==
    Analysed =>
        \A b \in BodiesOf(file, AllBodies) : \A i \in 1..(Len(b) - 1) :
            (/\ b[i + 1].kind = "DeferStmt"
             /\ \/ b[i].kind = "DeferStmt"
                \/ /\ b[i].kind = "IfStmt" /\ file.typesInfo
                   /\ b[i].cond \in {"err != nil", "nil != err", "e != nil",
                                     "err := g(); err != nil"})
            => /\ checkStatementPair(file, b[i], b[i + 1]) = <<>>
               /\ ~AnyAt(b[i].end)
               /\ \A e \in InnerEnds(b[i]) : ~AnyAt(e)

\* An error guard with an init statement and an else branch, a comment on
\* the line after it, a defer, a comment on the line after that one, and a
\* second defer: nothing is reported at the guard or at the first defer.
C29_Witness ==
    /\ Analysed /\ pass = 1
    /\ Len(file.list) = 4
    /\ file.list[1].cond = "err := g(); err != nil" /\ file.list[1].els # <<>>
    /\ file.list[2].kind = "DeferStmt" /\ file.list[3].kind = "DeferStmt"
    /\ \E c \in Between(file, file.list[1].end, file.list[2].pos) :
          Line(file, c) = Line(file, file.list[1].end) + 1
    /\ \E c \in Between(file, file.list[2].end, file.list[3].pos) :
          Line(file, c) = Line(file, file.list[2].end) + 1
    /\ ~AnyAt(file.list[1].end) /\ ~AnyAt(file.list[2].end)

\* ------------------------------------------------------------------ C22
\* The strings that are no regular expressions.
Invalid == {"[", "a(b"}

\* The paths the patterns are matched against.
Paths ==
    {Path(abs, elems) : abs \in BOOLEAN,
                        elems \in {<<"a.go">>, <<"a_excluded.go">>, <<"gen", "a.go">>,
                                   <<"w", "a.go">>, <<"w", "a_excluded.go">>,
                                   <<"w", "gen", "a.go">>}}

\* The values of the calls of Set that were accepted, in call order.
Accepted(cs) == [i \in DOMAIN SelectSeq(cs, LAMBDA c : c.value \notin Invalid) |->
                    SelectSeq(cs, LAMBDA c : c.value \notin Invalid)[i].value]

\* Every accepted pattern excludes the paths it matches.
Effective(cs, e) ==
    \A i \in DOMAIN Accepted(cs) : \A path \in Paths :
        MatchString(Compile(Accepted(cs)[i]).re, path) => matches(e, path)

\* C22: a call of Set with a string that is no regular expression returns
\* an error that names the string and the fault found in it, and leaves the
\* compiled and the raw patterns as they were; the patterns accepted before
\* and after such a call exclude the paths they match.
C22_InvalidPattern ==
    [][(calls' # calls) =>
          /\ calls'[Len(calls')].value \in Invalid =>
                /\ ~err'.nil
                /\ Len(err'.msg) = 3
                /\ err'.msg[1] = "invalid regex pattern"
                /\ err'.msg[2] = calls'[Len(calls')].value
                /\ exclude' = exclude
          /\ calls'[Len(calls')].value \notin Invalid => err'.nil
          /\ Effective(calls', exclude')]_vars

\* A pattern accepted, a string rejected and a second pattern accepted: both
\* patterns are in force.
C22_Witness ==
    /\ Len(calls) = 3
    /\ calls[1].value \notin Invalid /\ calls[2].value \in Invalid
    /\ calls[3].value \notin Invalid /\ calls[3].value # calls[1].value
    /\ Len(exclude.patterns) = 2 /\ Len(exclude.raw) = 2
    /\ err.nil

\* ------------------------------------------------------------------ C30
\* C30: after any calls of Set, through "exclude" or "e", with accepted and
\* rejected values, the raw patterns are the accepted values in call order,
\* the compiled patterns are their compilations in the same order, String()
\* is the accepted values with a comma between each two, and a call never
\* takes a path out of the excluded ones.
C30_PatternLists ==
    /\ [](/\ Len(exclude.patterns) = Len(exclude.raw)
          /\ exclude.raw = Accepted(calls)
          /\ \A i \in DOMAIN exclude.patterns :
                exclude.patterns[i] = Compile(Accepted(calls)[i]).re
          /\ Len(String(exclude)) =
                IF Accepted(calls) = <<>> THEN 0 ELSE 2 * Len(Accepted(calls)) - 1
          /\ \A i \in DOMAIN Accepted(calls) : String(exclude)[2 * i - 1] = Accepted(calls)[i]
          /\ \A i \in 1..(Len(Accepted(calls)) - 1) : String(exclude)[2 * i] = ",")
    /\ [][\A path \in Paths : matches(exclude, path) => matches(exclude', path)]_vars

\* Patterns accepted through both flags, with a rejected value between them.
C30_Witness ==
    /\ Len(calls) = 3
    /\ calls[1].flag = "e" /\ calls[3].flag = "exclude"
    /\ calls[2].value \in Invalid
    /\ exclude.raw = <<calls[1].value, calls[3].value>>
    /\ calls[1].value # calls[3].value

\* ------------------------------------------------------------------ C21
\* The path of a file relative to the working directory of the process.
RelPath(f) == Path(FALSE, SubSeq(Filename(f).elems, 2, Len(Filename(f).elems)))

\* Some configured pattern matches the path.
AnyPattern(path) == \E i \in DOMAIN exclude.raw : MatchString(Compile(exclude.raw[i]).re, path)

\* Pass p has dealt with its k-th file.
Handled(p, k) == k \in DOMAIN passes[p].files /\ passes[p].fi > k

\* The diagnostics pass p holds for its k-th file.
DiagsOf(p, k) == SelectSeq(passes[p].diags, LAMBDA d : d.file = passes[p].files[k].name)

\* The diagnostics of a file that is analysed.
RECURSIVE DiagsFrom(_, _)
DiagsFrom(f, i) ==
    IF i > Len(Visits(f)) THEN <<>>
    ELSE InFileSeq(f, inspectNode(f, Visits(f)[i])) \o DiagsFrom(f, i + 1)

\* A handled file whose path is excluded was not inspected and has no
\* diagnostic; any other was inspected and has all its diagnostics.
FilterBy(path(_, _)) ==
    \A p \in DOMAIN passes : \A k \in DOMAIN passes[p].files :
        Handled(p, k) =>
            LET f == passes[p].files[k]
            IN  /\ AnyPattern(path(p, f)) => (k \notin passes[p].inspected /\ DiagsOf(p, k) = <<>>)
                /\ ~AnyPattern(path(p, f)) =>
                      (k \in passes[p].inspected /\ DiagsOf(p, k) = DiagsFrom(f, 1))
                /\ exclude.raw = <<>> => k \in passes[p].inspected

Relative(p, f) == RelPath(f)

\* The path run matches: the relative one, the absolute one when os.Getwd
\* failed.
Resolved(p, f) == IF passes[p].wd \in {w \in Getwd : w.abs} THEN RelPath(f) ELSE Filename(f)

Independent ==
    \A p \in DOMAIN passes : \A k \in DOMAIN passes[p].files :
        LET f     == passes[p].files[k]
            alone == IF shouldSkipFile(exclude, f, passes[p].wd) THEN <<>> ELSE DiagsFrom(f, 1)
        IN  /\ Len(DiagsOf(p, k)) <= Len(DiagsFrom(f, 1))
            /\ DiagsOf(p, k) = SubSeq(DiagsFrom(f, 1), 1, Len(DiagsOf(p, k)))
            /\ Handled(p, k) => DiagsOf(p, k) = alone

====
